---- MODULE Spec2Model ----
(***************************************************************************)
(* mega_js_scanner.py: the AST dangerous-call detector of DEEP mode and    *)
(* the DOM source/sink correlator of DOM mode, with the per-file batch     *)
(* loops that drive them and persist their results.                        *)
(***************************************************************************)
EXTENDS Naturals, Sequences, FiniteSets, TLC

VARIABLES
    mode,          \* args.mode: "deep" or "dom"
    jsdir,         \* whether args.jsdir was given
    esprima,       \* ESPRIMA_AVAILABLE
    callSinks,     \* module global DANGEROUS_SINKS
    domSources,    \* module global DOM_SOURCES
    domSinks,      \* module global DOM_SINKS
    files,         \* what collect_js_files finds, in rglob order; each file
                   \* with its text and with what esprima.parseScript makes of it
    pc,            \* position of the running mode function
    idx,           \* position of the `for fp in js_files` loop
    stack,         \* pending visit_node calls of the traversal, next one first
    findings,      \* the findings list of ast_find_dangerous_calls
    visited,       \* history: the nodes visit_node was entered for, in order
    origin,        \* history: origin[k] is the node that appended findings[k]
    astFiles,      \* results/analysis/ast: file name -> lines written
    domFiles,      \* results/analysis/dom: file name -> lines written
    log            \* what info/warn/error/success printed

vars == <<mode, jsdir, esprima, callSinks, domSources, domSinks, files, pc, idx,
          stack, findings, visited, origin, astFiles, domFiles, log>>

\* Bounds of the model.
MaxStmts == 2
MaxLine == 2
MaxFiles == 2
MaxChunks == 2

-----------------------------------------------------------------------------
(* Syntax trees, as esprima.parseScript(code, loc=True) hands them over.   *)

\* An attribute a node does not have (getattr's default, AttributeError).
NoAttr == "<none>"

\* A child attribute of node.__dict__ holding one node.
One(key, node) == [key |-> key, list |-> FALSE, items |-> <<node>>]

\* A child attribute of node.__dict__ holding a list of nodes.
Many(key, nodes) == [key |-> key, list |-> TRUE, items |-> nodes]

\* A node: its scalar attributes, the start line of node.loc, and its child
\* attributes in __dict__ order.
Node(type, name, value, computed, line, kids) ==
    [type |-> type, name |-> name, value |-> value, computed |-> computed,
     loc |-> line, kids |-> kids]

Identifier(name, line) == Node("Identifier", name, NoAttr, FALSE, line, <<>>)

Literal(value, line) == Node("Literal", NoAttr, value, FALSE, line, <<>>)

MemberExpression(computed, object, property) ==
    Node("MemberExpression", NoAttr, NoAttr, computed, object.loc,
         <<One("object", object), One("property", property)>>)

CallExpression(callee, arguments) ==
    Node("CallExpression", NoAttr, NoAttr, FALSE, callee.loc,
         <<One("callee", callee), Many("arguments", arguments)>>)

AssignmentExpression(left, right) ==
    Node("AssignmentExpression", NoAttr, NoAttr, FALSE, left.loc,
         <<One("left", left), One("right", right)>>)

ExpressionStatement(expression) ==
    Node("ExpressionStatement", NoAttr, NoAttr, FALSE, expression.loc,
         <<One("expression", expression)>>)

Program(body, line) ==
    Node("Program", NoAttr, NoAttr, FALSE, line, <<Many("body", body)>>)

\* What parseScript raises on text it cannot parse.
ParseError == Node("ParseError", NoAttr, NoAttr, FALSE, 0, <<>>)

\* What reading a child attribute gives when the node has none of that name:
\* no node, with no attributes of its own.
Missing == Node(NoAttr, NoAttr, NoAttr, FALSE, 0, <<>>)

\* node.<key> for a child attribute holding a node.
RECURSIVE AttrFrom(_, _, _)
AttrFrom(node, key, k) ==
    IF k > Len(node.kids) THEN Missing
    ELSE IF node.kids[k].key = key /\ ~node.kids[k].list
         THEN node.kids[k].items[1]
         ELSE AttrFrom(node, key, k + 1)

Attr(node, key) == AttrFrom(node, key, 1)

\* A node is named by its path from the root: <<k, i>> steps to item i of
\* child attribute k.
RECURSIVE Sub(_, _)
Sub(tree, path) ==
    IF path = <<>> THEN tree
    ELSE Sub(tree.kids[path[1][1]].items[path[1][2]], Tail(path))

-----------------------------------------------------------------------------
(* DEEP mode: the catalog and the detector.                                *)

DANGEROUS_SINKS ==
    <<"eval", "setTimeout", "setInterval", "Function", "document.write",
      "document.writeln", "innerHTML", "outerHTML", "insertAdjacentHTML",
      "location.assign", "location.replace">>

\* The inline list of the assignment branch.
ASSIGN_SINKS == <<"innerHTML", "outerHTML">>

\* x in list
In(x, list) == \E k \in 1..Len(list) : list[k] = x

\* getattr(node.loc.start, 'line', 0) if hasattr(node, 'loc') else 0
LineOf(node) == node.loc

\* CallMatch with the catalog test narrowed to one name.
CallMatchEvalOnly(node) ==
    IF node.type = "CallExpression"
    THEN LET callee == Attr(node, "callee").name
         IN  IF callee = "eval"
             THEN <<<<"CallExpression", callee, LineOf(node)>>>>
             ELSE <<>>
    ELSE <<>>

\* CallMatch with the key of a computed member callee taken for its name.
CallMatchComputedKey(node) ==
    IF node.type = "CallExpression"
    THEN LET target == Attr(node, "callee")
             callee == IF target.type = "MemberExpression" /\ target.computed
                       THEN Attr(target, "property").value
                       ELSE target.name
         IN  IF In(callee, callSinks)
             THEN <<<<"CallExpression", callee, LineOf(node)>>>>
             ELSE <<>>
    ELSE <<>>

\* The CallExpression branch of visit_node: what it appends for node.
CallMatch(node) ==
    IF node.type = "CallExpression"
    THEN LET callee == Attr(node, "callee").name
         IN  IF In(callee, callSinks)
             THEN <<<<"CallExpression", callee, LineOf(node)>>>>
             ELSE <<>>
    ELSE <<>>

\* AssignMatch with the name of a left side that is no member access taken
\* for the property name.
AssignMatchAnyTarget(node) ==
    IF node.type = "AssignmentExpression"
    THEN LET left == Attr(node, "left")
             prop == IF left.type = "MemberExpression"
                     THEN Attr(left, "property").name
                     ELSE left.name
         IN  IF prop # NoAttr /\ In(prop, ASSIGN_SINKS)
             THEN <<<<"AssignmentExpression", prop, LineOf(node)>>>>
             ELSE <<>>
    ELSE <<>>

\* The AssignmentExpression branch of visit_node: what it appends for node.
\* A left side without .property, or a property without .name, raises
\* inside the try and appends nothing.
AssignMatch(node) ==
    IF node.type = "AssignmentExpression"
    THEN LET prop == Attr(Attr(node, "left"), "property").name
         IN  IF prop # NoAttr /\ In(prop, ASSIGN_SINKS)
             THEN <<<<"AssignmentExpression", prop, LineOf(node)>>>>
             ELSE <<>>
    ELSE <<>>

\* The paths of child attribute k's items, in list order.
ItemPaths(path, k, n) == [i \in 1..n |-> Append(path, <<k, i>>)]

\* The children visit_node recurses into, in node.__dict__ order: every item
\* of a list attribute, and the node of a single-node attribute.
RECURSIVE ChildPathsFrom(_, _, _)
ChildPathsFrom(node, path, k) ==
    IF k > Len(node.kids) THEN <<>>
    ELSE ItemPaths(path, k, Len(node.kids[k].items))
         \o ChildPathsFrom(node, path, k + 1)

\* ChildPaths with no descent below a node that matched.
ChildPathsPruned(node, path) ==
    IF CallMatch(node) \o AssignMatch(node) # <<>>
    THEN <<>>
    ELSE ChildPathsFrom(node, path, 1)

\* ChildPaths with the children taken last one first.
ChildPathsReversed(node, path) ==
    LET forward == ChildPathsFrom(node, path, 1)
    IN  [k \in 1..Len(forward) |-> forward[Len(forward) + 1 - k]]

ChildPaths(node, path) == ChildPathsFrom(node, path, 1)

\* The tree of the file the loop is at.
Tree == files[idx].ast

\* One call of visit_node: the two matches on the node, then the recursion
\* into its children, which become the next calls, first child first.
VisitNode ==
    /\ pc = "visit"
    /\ stack # <<>>
    /\ LET path == Head(stack)
           node == Sub(Tree, path)
           hits == CallMatch(node) \o AssignMatch(node)
       IN  /\ findings' = findings \o hits
           /\ origin' = origin \o [k \in 1..Len(hits) |-> path]
           /\ visited' = Append(visited, path)
           /\ stack' = ChildPaths(node, path) \o Tail(stack)
    /\ UNCHANGED <<mode, jsdir, esprima, callSinks, domSources, domSinks, files,
                   pc, idx, astFiles, domFiles, log>>

\* The file name the loop passes around: str(fp).
PathOf(file) == file.dir \o "/" \o file.name

\* f with f[key] written anew: open(out, "w") replaces what was there.
Write(f, key, lines) ==
    [k \in DOMAIN f \cup {key} |-> IF k = key THEN lines ELSE f[k]]

\* f"[{ftype}] {name} at line {line}\n"
FormatFinding(finding) ==
    <<"[", finding[1], "] ", finding[2], " at line ", finding[3], "\n">>

\* run_deep_mode up to its loop: the two early returns, then collect_js_files.
StartDeep ==
    /\ pc = "start"
    /\ mode = "deep"
    /\ IF ~esprima
       THEN /\ log' = log \o <<<<"INFO", "Running DEEP MODE (AST static analysis)...">>,
                               <<"ERROR", "esprima not installed. Cannot run DEEP mode.">>>>
            /\ pc' = "returned"
            /\ idx' = idx
       ELSE IF ~jsdir
       THEN /\ log' = log \o <<<<"INFO", "Running DEEP MODE (AST static analysis)...">>,
                               <<"ERROR", "--jsdir required for DEEP mode">>>>
            /\ pc' = "returned"
            /\ idx' = idx
       ELSE /\ log' = Append(log, <<"INFO", "Running DEEP MODE (AST static analysis)...">>)
            /\ pc' = "loop"
            /\ idx' = 1
    /\ UNCHANGED <<mode, jsdir, esprima, callSinks, domSources, domSinks, files,
                   stack, findings, visited, origin, astFiles, domFiles>>

\* ParseFail with the loop left at the first failure.
ParseFailAborts ==
    /\ pc = "loop"
    /\ mode = "deep"
    /\ idx <= Len(files)
    /\ files[idx].ast = ParseError
    /\ log' = Append(log, <<"WARN", "AST parse failed for", PathOf(files[idx])>>)
    /\ pc' = "returned"
    /\ UNCHANGED <<mode, jsdir, esprima, callSinks, domSources, domSinks, files,
                   idx, stack, findings, visited, origin, astFiles, domFiles>>

\* parseScript raises: the warning, and `continue`.
ParseFail ==
    /\ pc = "loop"
    /\ mode = "deep"
    /\ idx <= Len(files)
    /\ files[idx].ast = ParseError
    /\ log' = Append(log, <<"WARN", "AST parse failed for", PathOf(files[idx])>>)
    /\ idx' = idx + 1
    /\ UNCHANGED <<mode, jsdir, esprima, callSinks, domSources, domSinks, files,
                   pc, stack, findings, visited, origin, astFiles, domFiles>>

\* parseScript returns the tree and ast_find_dangerous_calls starts on it:
\* findings = [] and visit_node(tree).
ParseOk ==
    /\ pc = "loop"
    /\ mode = "deep"
    /\ idx <= Len(files)
    /\ files[idx].ast # ParseError
    /\ pc' = "visit"
    /\ stack' = <<<<>>>>
    /\ findings' = <<>>
    /\ visited' = <<>>
    /\ origin' = <<>>
    /\ UNCHANGED <<mode, jsdir, esprima, callSinks, domSources, domSinks, files,
                   idx, astFiles, domFiles, log>>

\* ast_find_dangerous_calls has returned: the findings, if any, are written
\* to <name>.ast.txt, and the loop moves on.
WriteAst ==
    /\ pc = "visit"
    /\ stack = <<>>
    /\ IF findings # <<>>
       THEN LET out == files[idx].name \o ".ast.txt"
            IN  /\ astFiles' = Write(astFiles, out,
                                     [k \in 1..Len(findings) |-> FormatFinding(findings[k])])
                /\ log' = Append(log, <<"SUCCESS", "AST findings:", out>>)
       ELSE UNCHANGED <<astFiles, log>>
    /\ pc' = "loop"
    /\ idx' = idx + 1
    /\ UNCHANGED <<mode, jsdir, esprima, callSinks, domSources, domSinks, files,
                   stack, findings, visited, origin, domFiles>>

\* The loop of run_deep_mode is over.
DeepDone ==
    /\ pc = "loop"
    /\ mode = "deep"
    /\ idx > Len(files)
    /\ log' = Append(log, <<"SUCCESS", "DEEP MODE completed.">>)
    /\ pc' = "done"
    /\ UNCHANGED <<mode, jsdir, esprima, callSinks, domSources, domSinks, files,
                   idx, stack, findings, visited, origin, astFiles, domFiles>>

-----------------------------------------------------------------------------
(* DOM mode: the pattern catalogs and the correlator.  A text is the       *)
(* sequence of its characters; each catalog pattern is written as the      *)
(* literal its regular expression denotes (every "." in it is escaped).    *)
DOM_SOURCES ==
    <<<<"l", "o", "c", "a", "t", "i", "o", "n", ".", "h", "a", "s", "h">>,
      <<"l", "o", "c", "a", "t", "i", "o", "n", ".", "s", "e", "a", "r",
      "c", "h">>,
      <<"d", "o", "c", "u", "m", "e", "n", "t", ".", "U", "R", "L">>,
      <<"d", "o", "c", "u", "m", "e", "n", "t", ".", "d", "o", "c", "u",
      "m", "e", "n", "t", "U", "R", "I">>,
      <<"d", "o", "c", "u", "m", "e", "n", "t", ".", "l", "o", "c", "a",
      "t", "i", "o", "n">>,
      <<"w", "i", "n", "d", "o", "w", ".", "n", "a", "m", "e">>,
      <<"l", "o", "c", "a", "l", "S", "t", "o", "r", "a", "g", "e", ".",
      "g", "e", "t", "I", "t", "e", "m">>,
      <<"s", "e", "s", "s", "i", "o", "n", "S", "t", "o", "r", "a", "g",
      "e", ".", "g", "e", "t", "I", "t", "e", "m">>>>
DOM_SINKS ==
    <<<<"i", "n", "n", "e", "r", "H", "T", "M", "L">>,
      <<"o", "u", "t", "e", "r", "H", "T", "M", "L">>,
      <<"d", "o", "c", "u", "m", "e", "n", "t", ".", "w", "r", "i", "t",
      "e">>,
      <<"i", "n", "s", "e", "r", "t", "A", "d", "j", "a", "c", "e", "n",
      "t", "H", "T", "M", "L">>,
      <<"e", "v", "a", "l">>,
      <<"F", "u", "n", "c", "t", "i", "o", "n">>>>

\* Whether pattern matches text at position i.
MatchesAt(pattern, text, i) ==
    /\ i + Len(pattern) - 1 <= Len(text)
    /\ \A j \in 1..Len(pattern) : text[i + j - 1] = pattern[j]

\* re.findall(pattern, text): the matches from left to right, the search
\* resuming after each match.
RECURSIVE FindAllFrom(_, _, _)
FindAllFrom(pattern, text, i) ==
    IF i > Len(text) THEN <<>>
    ELSE IF MatchesAt(pattern, text, i)
         THEN <<pattern>> \o FindAllFrom(pattern, text, i + Len(pattern))
         ELSE FindAllFrom(pattern, text, i + 1)

FindAll(pattern, text) == FindAllFrom(pattern, text, 1)

\* The loop of find_sources and find_sinks over a catalog: (pattern, matches)
\* for each pattern that matched, in catalog order.
RECURSIVE FindIn(_, _, _)
FindIn(catalog, js, k) ==
    IF k > Len(catalog) THEN <<>>
    ELSE LET res == FindAll(catalog[k], js)
         IN  (IF res # <<>> THEN <<<<catalog[k], res>>>> ELSE <<>>)
             \o FindIn(catalog, js, k + 1)

find_sources(js) == FindIn(domSources, js, 1)

find_sinks(js) == FindIn(domSinks, js, 1)

\* DomReport with the verdict given on either list.
DomReportEither(sources, sinks) ==
    <<<<"=== DOM SOURCES ===">>>>
    \o [k \in 1..Len(sources) |-> <<"[SOURCE]", sources[k][1], sources[k][2]>>]
    \o <<<<"=== DOM SINKS ===">>>>
    \o [k \in 1..Len(sinks) |-> <<"[SINK]", sinks[k][1], sinks[k][2]>>]
    \o (IF sources # <<>> \/ sinks # <<>>
        THEN <<<<"!!! POSSIBLE DOM XSS !!!">>>> ELSE <<>>)

\* What run_dom_mode writes for a file with these sources and sinks.
DomReport(sources, sinks) ==
    <<<<"=== DOM SOURCES ===">>>>
    \o [k \in 1..Len(sources) |-> <<"[SOURCE]", sources[k][1], sources[k][2]>>]
    \o <<<<"=== DOM SINKS ===">>>>
    \o [k \in 1..Len(sinks) |-> <<"[SINK]", sinks[k][1], sinks[k][2]>>]
    \o (IF sources # <<>> /\ sinks # <<>>
        THEN <<<<"!!! POSSIBLE DOM XSS !!!">>>> ELSE <<>>)

\* run_dom_mode up to its loop.
StartDom ==
    /\ pc = "start"
    /\ mode = "dom"
    /\ IF ~jsdir
       THEN /\ log' = log \o <<<<"INFO", "Running DOM MODE (DOM-XSS detection)...">>,
                               <<"ERROR", "--jsdir required for DOM mode">>>>
            /\ pc' = "returned"
            /\ idx' = idx
       ELSE /\ log' = Append(log, <<"INFO", "Running DOM MODE (DOM-XSS detection)...">>)
            /\ pc' = "loop"
            /\ idx' = 1
    /\ UNCHANGED <<mode, jsdir, esprima, callSinks, domSources, domSinks, files,
                   stack, findings, visited, origin, astFiles, domFiles>>

\* One turn of the loop of run_dom_mode.
DomFile ==
    /\ pc = "loop"
    /\ mode = "dom"
    /\ idx <= Len(files)
    /\ LET js == files[idx].text
           sources == find_sources(js)
           sinks == find_sinks(js)
           out == files[idx].name \o ".domxss.txt"
       IN  IF sources # <<>> \/ sinks # <<>>
           THEN /\ domFiles' = Write(domFiles, out, DomReport(sources, sinks))
                /\ log' = Append(log, <<"SUCCESS", "DOM-XSS results:", out>>)
           ELSE UNCHANGED <<domFiles, log>>
    /\ idx' = idx + 1
    /\ UNCHANGED <<mode, jsdir, esprima, callSinks, domSources, domSinks, files,
                   pc, stack, findings, visited, origin, astFiles>>

\* The loop of run_dom_mode is over.
DomDone ==
    /\ pc = "loop"
    /\ mode = "dom"
    /\ idx > Len(files)
    /\ log' = Append(log, <<"SUCCESS", "DOM MODE completed.">>)
    /\ pc' = "done"
    /\ UNCHANGED <<mode, jsdir, esprima, callSinks, domSources, domSinks, files,
                   idx, stack, findings, visited, origin, astFiles, domFiles>>

Next ==
    \/ StartDeep
    \/ ParseFail
    \/ ParseOk
    \/ VisitNode
    \/ WriteAst
    \/ DeepDone
    \/ StartDom
    \/ DomFile
    \/ DomDone

-----------------------------------------------------------------------------
(* The inputs: the syntax trees and texts of the scanned files.            *)

\* eval("x")
EvalCall(l) == CallExpression(Identifier("eval", l), <<Literal("x", l)>>)

\* What stands before a "." or a "[": a name, or the result of a call.
Objects(l) == {Identifier("document", l), Identifier("el", l), EvalCall(l)}

\* o.p for a name p, and o[p] for a name or a string p.
Members(l) ==
    {MemberExpression(FALSE, o, Identifier(p, l)) :
        o \in Objects(l), p \in {"write", "innerHTML", "textContent"}}
    \cup
    {MemberExpression(TRUE, o, p) :
        o \in Objects(l),
        p \in {Literal("eval", l), Literal("innerHTML", l),
               Identifier("innerHTML", l)}}

\* What is called: a name, a member, or the result of a call.
Callees(l) ==
    {Identifier(n, l) : n \in {"eval", "innerHTML", "el"}}
    \cup Members(l) \cup {EvalCall(l)}

\* The argument lists, their first argument starting on line l2.
ArgLists(l2) == {<<>>, <<Literal("x", l2)>>, <<EvalCall(l2)>>}

\* The left sides of an assignment.
Targets(l) ==
    {Identifier(n, l) : n \in {"innerHTML", "el"}} \cup Members(l)

\* The expressions a statement is made of: a call or an assignment starting
\* on line l, its arguments or right side starting on line l2.
Expressions(l, l2) ==
    {CallExpression(c, a) : c \in Callees(l), a \in ArgLists(l2)}
    \cup
    {AssignmentExpression(t, r) :
        t \in Targets(l), r \in {Literal("<img>", l2), EvalCall(l2)}}

\* The statements around the one under study, starting on line l.
Plain(l) ==
    <<EvalCall(l),
      AssignmentExpression(MemberExpression(FALSE, Identifier("el", l),
                                            Identifier("innerHTML", l)),
                           Literal("<img>", l))>>

\* The statement list of n statements whose first starts on line first, one
\* statement to a line: statement r is e, the others are plain.
Body(n, first, r, e, plain) ==
    [k \in 1..n |->
        ExpressionStatement(IF k = r THEN e ELSE Plain(first + k - 1)[plain[k]])]

\* location.hash
LocationHash == <<"l", "o", "c", "a", "t", "i", "o", "n", ".", "h", "a", "s", "h">>

\* innerHTML
InnerHTML == <<"i", "n", "n", "e", "r", "H", "T", "M", "L">>

\* Pieces of text: whole patterns, parts of patterns, and other text.
Chunks ==
    {LocationHash,
     InnerHTML,
     <<"l", "o", "c", "a", "t", "i", "o", "n">>,
     <<".", "h", "a", "s", "h">>,
     <<"e", "v", "a", "l">>,
     <<"x", "=">>}

\* The texts read_text returns: up to MaxChunks pieces, one after the other.
RECURSIVE TextsOf(_)
TextsOf(n) ==
    IF n = 0 THEN {<<>>}
    ELSE {t \o c : t \in TextsOf(n - 1), c \in Chunks}

Texts == UNION {TextsOf(n) : n \in 0..MaxChunks}

\* A file of the scanned directory: where it is, what parseScript makes of
\* it (DEEP mode) and its text (DOM mode).
File(dir, name, ast, text) == [dir |-> dir, name |-> name, ast |-> ast, text |-> text]

\* An output directory with nothing written to it.
EmptyDir == [k \in {} |-> <<>>]

\* The state in which main() calls the mode function.
Fresh ==
    /\ pc = "start"
    /\ idx = 0
    /\ stack = <<>>
    /\ findings = <<>>
    /\ visited = <<>>
    /\ origin = <<>>
    /\ astFiles = EmptyDir
    /\ domFiles = EmptyDir
    /\ log = <<>>

\* The catalogs as the module defines them.
Defaults ==
    /\ callSinks = DANGEROUS_SINKS
    /\ domSources = DOM_SOURCES
    /\ domSinks = DOM_SINKS

\* The two early returns: no esprima, no --jsdir.
InitRefused ==
    /\ mode \in {"deep", "dom"}
    /\ \/ esprima = FALSE /\ jsdir = TRUE
       \/ esprima = TRUE /\ jsdir = FALSE
    /\ files = <<>>

\* One file, of any content.  In DEEP mode parseScript fails on it or
\* returns a tree of up to MaxStmts statements, the first one on any line up
\* to MaxLine; in DOM mode its text is up to MaxChunks pieces.
InitOne ==
    /\ esprima = TRUE
    /\ jsdir = TRUE
    /\ \/ /\ mode = "deep"
          /\ \/ files = <<File("a", "x.js", ParseError, <<>>)>>
             \/ \E first \in 1..MaxLine :
                    files = <<File("a", "x.js", Program(<<>>, first), <<>>)>>
             \/ \E first \in 1..MaxLine, n \in 1..MaxStmts :
                    \E r \in 1..n, plain \in [1..n -> DOMAIN Plain(first)] :
                        \E e \in Expressions(first + r - 1, first + r - 1)
                                    \cup Expressions(first + r - 1, first + r) :
                            files = <<File("a", "x.js",
                                           Program(Body(n, first, r, e, plain), first),
                                           <<>>)>>
       \/ /\ mode = "dom"
          /\ \E text \in Texts :
                files = <<File("a", "x.js", ParseError, text)>>

\* The files of a directory tree with two directories: two of them have the
\* same name.
BatchPaths == {<<"a", "x.js">>, <<"b", "x.js">>, <<"a", "y.js">>}

\* What parseScript makes of a file of the batch.
BatchTrees ==
    {ParseError, Program(<<ExpressionStatement(Literal("x", 1))>>, 1)} \cup
    {Program(<<ExpressionStatement(Plain(1)[k])>>, 1) : k \in DOMAIN Plain(1)}

\* The text of a file of the batch: nothing, a source, a sink, both.
BatchTexts == {<<>>, LocationHash, InnerHTML, LocationHash \o InnerHTML}

\* Up to MaxFiles files, in any order.
InitMany ==
    /\ esprima = TRUE
    /\ jsdir = TRUE
    /\ \E n \in 0..MaxFiles :
        \E paths \in {p \in [1..n -> BatchPaths] :
                        \A i, j \in 1..n : p[i] = p[j] => i = j} :
            \/ /\ mode = "deep"
               /\ \E asts \in [1..n -> BatchTrees] :
                    files = [k \in 1..n |->
                                File(paths[k][1], paths[k][2], asts[k], <<>>)]
            \/ /\ mode = "dom"
               /\ \E texts \in [1..n -> BatchTexts] :
                    files = [k \in 1..n |->
                                File(paths[k][1], paths[k][2], ParseError, texts[k])]

Init == Defaults /\ Fresh /\ (InitRefused \/ InitOne \/ InitMany)

Spec == Init /\ [][Next]_vars

\* A batch, run to its end: the mode function is sequential code that keeps
\* running.
InitBatch == Defaults /\ Fresh /\ InitMany

SpecFair == InitBatch /\ [][Next]_vars /\ WF_vars(Next)

\* A host that has replaced the module's catalogs before the run.
InitOverride ==
    /\ callSinks \in {DANGEROUS_SINKS, <<>>}
    /\ domSources \in {DOM_SOURCES, <<>>}
    /\ domSinks \in {DOM_SINKS, <<>>}
    /\ Fresh
    /\ (InitRefused \/ InitMany)

SpecOverride == InitOverride /\ [][Next]_vars

-----------------------------------------------------------------------------
(* Properties of the detector.                                             *)

\* ast_find_dangerous_calls is about to return its findings.
Traversed == pc = "visit" /\ stack = <<>>

\* Every node reachable from node, which is at path.
RECURSIVE PathsUnder(_, _)
PathsUnder(node, path) ==
    {path} \cup
    UNION {UNION {PathsUnder(node.kids[k].items[i], Append(path, <<k, i>>)) :
                    i \in DOMAIN node.kids[k].items} :
            k \in DOMAIN node.kids}

Paths(tree) == PathsUnder(tree, <<>>)

\* The findings of the given kind that the node at path produced.
From(path, kind) ==
    {k \in 1..Len(findings) : origin[k] = path /\ findings[k][1] = kind}

\* p is a proper prefix of q: q is below p in the tree.
Below(p, q) == Len(p) < Len(q) /\ SubSeq(q, 1, Len(p)) = p

\* p comes before q in depth-first pre-order: q is below p, or where the
\* two paths part p takes the earlier child.
PreBefore(p, q) ==
    \/ Below(p, q)
    \/ \E i \in 1..Len(p) :
        /\ i <= Len(q)
        /\ SubSeq(p, 1, i - 1) = SubSeq(q, 1, i - 1)
        /\ \/ p[i][1] < q[i][1]
           \/ p[i][1] = q[i][1] /\ p[i][2] < q[i][2]

\* The tree's child attributes are in source order: a node that comes
\* later in pre-order starts on no earlier line.
SourceOrdered(tree) ==
    \A p, q \in Paths(tree) :
        PreBefore(p, q) => Sub(tree, p).loc <= Sub(tree, q).loc

\* The program eval("x"), on line 1.
EvalProgram == Program(<<ExpressionStatement(EvalCall(1))>>, 1)

\* The program eval(eval("x")), on line 1.
NestedEvalProgram ==
    Program(<<ExpressionStatement(
                CallExpression(Identifier("eval", 1), <<EvalCall(1)>>))>>, 1)

\* C1: every call whose callee is a non-computed member expression whose
\* object.property spelling is a dotted entry of the call-sink catalog
\* yields exactly one call-sink finding named by that spelling.
C1_DottedCalleeFlagged ==
    Traversed =>
        \A p \in Paths(Tree) :
            LET node == Sub(Tree, p)
                callee == Attr(node, "callee")
                object == Attr(callee, "object")
                property == Attr(callee, "property")
                dotted == object.name \o "." \o property.name
            IN  (/\ node.type = "CallExpression"
                 /\ callee.type = "MemberExpression"
                 /\ ~callee.computed
                 /\ object.type = "Identifier"
                 /\ property.type = "Identifier"
                 /\ In(dotted, callSinks))
                => \E k \in From(p, "CallExpression") :
                        /\ From(p, "CallExpression") = {k}
                        /\ findings[k][2] = dotted

\* C2: every call whose callee is a plain identifier named in the call-sink
\* catalog yields exactly one call-sink finding with that name and the
\* call's start line; eval("x") alone on line 1 yields exactly the one
\* finding (CallExpression, eval, 1).
C2_IdentifierCalleeFlagged ==
    Traversed =>
        /\ \A p \in Paths(Tree) :
            LET node == Sub(Tree, p)
                callee == Attr(node, "callee")
            IN  (/\ node.type = "CallExpression"
                 /\ callee.type = "Identifier"
                 /\ In(callee.name, callSinks))
                => \E k \in From(p, "CallExpression") :
                        /\ From(p, "CallExpression") = {k}
                        /\ findings[k] = <<"CallExpression", callee.name, node.loc>>
        /\ Tree = EvalProgram => findings = <<<<"CallExpression", "eval", 1>>>>

\* The traversal of eval("x") has ended with its one finding.
C2_Witness ==
    /\ Traversed
    /\ Tree = EvalProgram
    /\ findings = <<<<"CallExpression", "eval", 1>>>>

C4_ComputedCalleeNotFlagged ==
    Traversed =>
        \A p \in Paths(Tree) :
            LET node == Sub(Tree, p)
                callee == Attr(node, "callee")
            IN  (/\ node.type = "CallExpression"
                 /\ callee.type # "Identifier"
                 /\ ~(callee.type = "MemberExpression" /\ ~callee.computed))
                => From(p, "CallExpression") = {}

\* A call through a computed member whose key is the string "eval" has been
\* traversed and not flagged.
C4_Witness ==
    /\ Traversed
    /\ \E p \in Paths(Tree) :
        LET node == Sub(Tree, p)
            callee == Attr(node, "callee")
        IN  /\ node.type = "CallExpression"
            /\ callee.type = "MemberExpression"
            /\ callee.computed
            /\ Attr(callee, "property").value = "eval"
            /\ From(p, "CallExpression") = {}

\* C5: the traversal enters no node twice and, when it ends, has entered
\* every node of the tree; a match does not prune it: everything below a
\* flagged node is entered too, and eval(eval("x")) yields two findings.
C5_EveryNodeOnce ==
    /\ pc = "visit" =>
        \A i, j \in 1..Len(visited) : visited[i] = visited[j] => i = j
    /\ Traversed =>
        /\ {visited[k] : k \in 1..Len(visited)} = Paths(Tree)
        /\ \A k \in 1..Len(origin) : \A q \in Paths(Tree) :
                Below(origin[k], q) => \E m \in 1..Len(visited) : visited[m] = q
        /\ Tree = NestedEvalProgram => Len(findings) = 2

\* The traversal of eval(eval("x")) has ended with both calls reported.
C5_Witness ==
    /\ Traversed
    /\ Tree = NestedEvalProgram
    /\ Len(findings) = 2
    /\ Below(origin[1], origin[2])
    /\ Len(visited) = Cardinality(Paths(Tree))

\* C9: the findings are in depth-first pre-order of the nodes that produced
\* them, and for a tree in source order their line numbers never decrease.
C9_PreOrder ==
    Traversed =>
        /\ \A k, m \in 1..Len(findings) :
                k < m => PreBefore(origin[k], origin[m])
        /\ SourceOrdered(Tree) =>
                \A k, m \in 1..Len(findings) :
                    k < m => findings[k][3] <= findings[m][3]

\* Three findings over more than one line have been returned, one of them
\* from below another.
C9_Witness ==
    /\ Traversed
    /\ SourceOrdered(Tree)
    /\ Len(findings) >= 3
    /\ findings[1][3] < findings[Len(findings)][3]
    /\ \E k, m \in 1..Len(findings) : Below(origin[k], origin[m])

-----------------------------------------------------------------------------
(* Properties of the correlator and of the batch loops.                    *)

\* The pattern occurs somewhere in the text.
Occurs(pattern, text) ==
    \E i \in 1..Len(text) :
        /\ i + Len(pattern) - 1 <= Len(text)
        /\ SubSeq(text, i, i + Len(pattern) - 1) = pattern

\* Some pattern of the catalog occurs in the text.
AnyOccurs(catalog, text) ==
    \E k \in 1..Len(catalog) : Occurs(catalog[k], text)

\* The report holds a line of this kind ("[SOURCE]", "[SINK]") or, for the
\* verdict, this line.
HasLine(report, head) ==
    \E k \in 1..Len(report) : report[k][1] = head

\* C6: the correlator reports possible XSS for a text if and only if some
\* source pattern and some sink pattern both occur in it, and then the
\* report lists at least one source and at least one sink.
C6_XssIffSourceAndSink ==
    [][(pc = "loop" /\ mode = "dom" /\ idx <= Len(files) /\ idx' = idx + 1) =>
        LET js == files[idx].text
            out == files[idx].name \o ".domxss.txt"
            reported == /\ log' # log
                        /\ HasLine(domFiles'[out], "!!! POSSIBLE DOM XSS !!!")
        IN  /\ reported <=> (AnyOccurs(domSources, js) /\ AnyOccurs(domSinks, js))
            /\ reported => /\ HasLine(domFiles'[out], "[SOURCE]")
                           /\ HasLine(domFiles'[out], "[SINK]")
      ]_vars

\* A file whose text holds a source and a sink has been reported with the
\* verdict, and a file whose text holds only a source without it.
C6_Witness ==
    /\ mode = "dom"
    /\ pc = "done"
    /\ Len(files) = 2
    /\ files[1].name # files[2].name
    /\ files[1].text = LocationHash \o InnerHTML
    /\ HasLine(domFiles[files[1].name \o ".domxss.txt"], "!!! POSSIBLE DOM XSS !!!")
    /\ files[2].text = LocationHash
    /\ ~HasLine(domFiles[files[2].name \o ".domxss.txt"], "!!! POSSIBLE DOM XSS !!!")

\* The DEEP loop is at file i, which parseScript fails on.
AtParseFailure(i) ==
    /\ pc = "loop"
    /\ mode = "deep"
    /\ idx = i
    /\ i <= Len(files)
    /\ files[i].ast = ParseError

Warned == \E k \in 1..Len(log) : log[k][1] = "WARN"

\* C8: with a catalog overridden by an empty one the detector falls back to
\* the default catalog and warns: what the default catalog flags is still
\* found, and the run says that its configuration is degraded.
C8_EmptyCatalogFallsBack ==
    /\ (Traversed /\ callSinks = <<>>) =>
        /\ Warned
        /\ \A p \in Paths(Tree) :
            LET node == Sub(Tree, p)
                callee == Attr(node, "callee")
            IN  (/\ node.type = "CallExpression"
                 /\ callee.type = "Identifier"
                 /\ In(callee.name, DANGEROUS_SINKS))
                => From(p, "CallExpression") # {}
    /\ (pc = "done" /\ mode = "dom" /\ (domSources = <<>> \/ domSinks = <<>>)) =>
        /\ Warned
        /\ \A i \in 1..Len(files) :
            (AnyOccurs(DOM_SOURCES, files[i].text) \/ AnyOccurs(DOM_SINKS, files[i].text))
                => (files[i].name \o ".domxss.txt") \in DOMAIN domFiles

\* C10: an artifact written for one file of the batch is not overwritten or
\* replaced by what is written for another file of the batch.
C10_ArtifactNotReplaced ==
    [][/\ \A out \in DOMAIN astFiles : astFiles'[out] = astFiles[out]
       /\ \A out \in DOMAIN domFiles : domFiles'[out] = domFiles[out]
      ]_vars

====
